---- MODULE Spec2Model ----
(***************************************************************************)
(* Verifiable secret promises (poly/promise/promise.go).                   *)
(*                                                                         *)
(* The group is the additive group Z_Q of prime order Q: a Point is the    *)
(* discrete logarithm of the element with respect to the standard base g   *)
(* (so g is 1 and P.Mul(B, s) is B*s mod Q), a Secret is an element of the *)
(* scalar field Z_Q.  Signatures and zero-knowledge proofs are symbolic:   *)
(* the byte string records what the signer or prover put into it, and      *)
(* verification recomputes the relation the real verifier checks.          *)
(***************************************************************************)
EXTENDS Integers, Sequences, FiniteSets, TLC

\* ------------------------------------------------------------------ bounds
MaxN == 3       \* largest insurer list handed to ConstructPromise
MaxT == 2       \* largest threshold t handed to ConstructPromise
MaxFilled == 3  \* slots of one PromiseState that hold a value at the same time

\* --------------------------------------------------- the group abstraction
Q == 5
G == 1
Scalars == 0 .. (Q - 1)
Points == 0 .. (Q - 1)

Mul(P, s) == (P * s) % Q
SAdd(a, b) == (a + b) % Q
SSub(a, b) == (a - b + Q) % Q

\* Secret().Pick(Cipher(marshal(D))): a pseudo-random scalar determined by D.
CipherPick(D) == (2 * D + 1) % Q

\* ------------------------------------------------------------- constants
sigMsg == "Promise Signature"
sigBlameMsg == "Promise Blame Signature"
badMsg == "Bad message"
protocolName == "Promise Protocol"
keySuite == "keySuite"

\* Go's nil pointer, nil byte slice, and the return values.
NilPtr == [nil |-> TRUE]
NilBytes == [nilBytes |-> TRUE]
Nil == "nil"
ErrInvalidIndex == "Invalid index. Expected 0 <= i < n"
ErrNilSignature == "Nil signature"
ErrBadSignature == "anon.Verify failed"
ErrBadProof == "proof.HashVerify failed"
ErrUnjustifiedBlame == "Unjustified blame. The share checks out okay."
ErrWrongInsurer == "The public key the promise recorded differs"
ErrBadShare == "The share failed the public polynomial check."
ErrBadTRN == "Invalid t-of-n shares promise: expected t <= r <= n"
ErrBadPubKey == "Public key of promise differs from what is expected"
ErrBadLengths == "Insurers and secrets array should be of length promise.n"
ErrRepudiated == "A valid blame proofs proves this Promise to be uncertified."
ErrNotEnoughSigs == "Not enough signatures yet to be certified"

\* ----------------------------------------------------- key pairs (config)
KeyPair(x) == [Secret |-> x, Public |-> Mul(G, x), Suite |-> keySuite]

\* --------------------------------------------------- polynomial library
RECURSIVE PolyEval(_, _)
\* Horner evaluation of the coefficient sequence c (constant term first) at x.
PolyEval(c, x) ==
    IF c = << >> THEN 0 ELSE (c[1] + x * PolyEval(Tail(c), x)) % Q

\* PriShares.Split / PriPoly.Eval: party i holds the value at abscissa 1+i.
PriShare(coefs, i) == PolyEval(coefs, 1 + i)

\* PubPoly.Commit(pripoly, nil): the coefficients lifted to the base g.
PubPolyCommit(coefs) == [k \in 1 .. Len(coefs) |-> Mul(G, coefs[k])]

\* PubPoly.Check(i, share): g*share equals the commitment evaluated at 1+i.
PubPolyCheck(pubPoly, i, share) == Mul(G, share) = PolyEval(pubPoly, 1 + i)

\* PriShares.Empty(suite, k, n): n share slots, none set, threshold k.
PriSharesEmpty(suite, k, n) == [k |-> k, s |-> [i \in 1 .. n |-> NilPtr]]

\* What a call that panics yields in place of a value.
Panic == [panic |-> TRUE]

\* A slot of PriShares holds nil or a scalar.
SecretRef(v) == [secret |-> v]

\* PriShares.SetShare(i, share)
PriSharesSetShare(ps, i, share) == [ps EXCEPT !.s[i + 1] = SecretRef(share)]

\* The multiplicative inverse in the scalar field.
SInv(a) == CHOOSE b \in 1 .. (Q - 1) : (a * b) % Q = 1

RECURSIVE FirstSet(_, _, _)
\* The first k indices (from i on) whose slot in ps holds a share.
FirstSet(ps, i, k) ==
    IF k = 0 \/ i >= Len(ps.s) THEN << >>
    ELSE IF ps.s[i + 1] = NilPtr THEN FirstSet(ps, i + 1, k)
    ELSE <<i>> \o FirstSet(ps, i + 1, k - 1)

RECURSIVE LagrangeAtZero(_, _, _)
\* The sum over the indices idx[m..] of share_i times the Lagrange basis
\* polynomial of abscissa 1+i (among the abscissae of idx) evaluated at 0.
LagrangeAtZero(ps, idx, m) ==
    IF m > Len(idx) THEN 0
    ELSE LET xi == 1 + idx[m]
             RECURSIVE Basis(_)
             Basis(j) ==
                 IF j > Len(idx) THEN 1
                 ELSE IF j = m THEN Basis(j + 1)
                 ELSE LET xj == 1 + idx[j]
                      IN (xj * SInv(SSub(xj, xi)) * Basis(j + 1)) % Q
         IN (ps.s[idx[m] + 1].secret * Basis(1) + LagrangeAtZero(ps, idx, m + 1)) % Q

\* PriShares.Secret(): the interpolation at 0 of the first k shares set; it
\* panics when fewer than k shares are set.
PriSharesSecret(ps) ==
    LET idx == FirstSet(ps, 0, ps.k)
    IN IF Len(idx) < ps.k THEN Panic ELSE SecretRef(LagrangeAtZero(ps, idx, 1))

\* ---------------------------------------------------- anonymous signature
\* anon.Sign with a ring of one key and signer index 0 is a Schnorr
\* signature: it verifies under a ring {P} exactly when P = g*privateKey
\* and the message is the one signed.
AnonSign(msg, set, privateKey) == [msg |-> msg, pub |-> Mul(G, privateKey)]
AnonVerify(msg, set, sig) ==
    /\ DOMAIN sig = {"msg", "pub"}
    /\ sig.msg = msg
    /\ sig.pub = set[1]

\* -------------------------------------------------------- proof framework
\* HashProve of Rep("D","x","P"): a proof of knowledge of x with D = x*P.
GarbageProof == [garbage |-> TRUE]
HashProve(x, D, P) == [x |-> x, P |-> P]
HashVerify(D, P, prf) ==
    /\ DOMAIN prf = {"x", "P"}
    /\ prf.P = P
    /\ D = Mul(P, prf.x)

\* ================================================================ Promise
\* The zero value new(Promise).
EmptyPromise ==
    [shareSuite |-> keySuite, t |-> 0, r |-> 0, n |-> 0, pubKey |-> 0,
     pubPoly |-> << >>, insurers |-> << >>, secrets |-> << >>]

diffieHellmanEncrypt(secret, diffieBase) == SAdd(secret, CipherPick(diffieBase))

\* Mutant of diffieHellmanDecrypt: the mask is added once more.
diffieHellmanDecrypt_Add(secret, diffieBase) == SAdd(secret, CipherPick(diffieBase))

diffieHellmanDecrypt(secret, diffieBase) == SSub(secret, CipherPick(diffieBase))

\* Mutant of ClampR: an r above n is left as it is.
ClampR_NoUpper(t, r, n) == IF r < t THEN t ELSE r

\* The clamped r of ConstructPromise.
ClampR(t, r, n) == IF r < t THEN t ELSE IF r > n THEN n ELSE r

\* ConstructPromise for n >= t; coefs is the polynomial PriPoly.Pick draws
\* (constant term secret.Secret, the other t-1 coefficients random).
\* Mutant of ConstructPromise: insurer i is given the share of index i + 1.
ConstructPromise_ShiftedShares(secret, keyPair, t, r, insurers, coefs) ==
    LET n == Len(insurers) IN
    [shareSuite |-> secret.Suite,
     t |-> t,
     r |-> ClampR(t, r, n),
     n |-> n,
     pubKey |-> keyPair.Public,
     pubPoly |-> PubPolyCommit(coefs),
     insurers |-> insurers,
     secrets |-> [k \in 1 .. n |->
                    diffieHellmanEncrypt(PriShare(coefs, k),
                                         Mul(insurers[k], keyPair.Secret))]]

ConstructPromise(secret, keyPair, t, r, insurers, coefs) ==
    LET n == Len(insurers) IN
    [shareSuite |-> secret.Suite,
     t |-> t,
     r |-> ClampR(t, r, n),
     n |-> n,
     pubKey |-> keyPair.Public,
     pubPoly |-> PubPolyCommit(coefs),
     insurers |-> insurers,
     secrets |-> [k \in 1 .. n |->
                    diffieHellmanEncrypt(PriShare(coefs, k - 1),
                                         Mul(insurers[k], keyPair.Secret))]]

\* Mutant of VerifyPromise: the lengths of the lists are not looked at.
VerifyPromise_NoLengths(p, promiserKey) ==
    IF p.t > p.n \/ p.t > p.r \/ p.r > p.n THEN ErrBadTRN
    ELSE IF promiserKey # p.pubKey THEN ErrBadPubKey
    ELSE Nil

VerifyPromise(p, promiserKey) ==
    IF p.t > p.n \/ p.t > p.r \/ p.r > p.n THEN ErrBadTRN
    ELSE IF promiserKey # p.pubKey THEN ErrBadPubKey
    ELSE IF Len(p.insurers) # p.n \/ Len(p.secrets) # p.n THEN ErrBadLengths
    ELSE Nil

\* Mutant of VerifyShare: the key pair is not compared with insurers[i].
VerifyShare_AnyKey(p, i, gKeyPair) ==
    IF i < 0 \/ i >= p.n THEN ErrInvalidIndex
    ELSE LET diffieBase == Mul(p.pubKey, gKeyPair.Secret)
             share == diffieHellmanDecrypt(p.secrets[i + 1], diffieBase)
         IN IF ~PubPolyCheck(p.pubPoly, i, share) THEN ErrBadShare ELSE Nil

VerifyShare(p, i, gKeyPair) ==
    IF i < 0 \/ i >= p.n THEN ErrInvalidIndex
    ELSE IF p.insurers[i + 1] # gKeyPair.Public THEN ErrWrongInsurer
    ELSE LET diffieBase == Mul(p.pubKey, gKeyPair.Secret)
             share == diffieHellmanDecrypt(p.secrets[i + 1], diffieBase)
         IN IF ~PubPolyCheck(p.pubPoly, i, share) THEN ErrBadShare ELSE Nil

\* PromiseSignature.init
PromiseSignature(suite, sig) == [suite |-> suite, signature |-> sig]

\* Mutant of sign: the signing key is shifted by the index signed for.
sign_IndexedKey(p, i, gKeyPair, msg) ==
    PromiseSignature(gKeyPair.Suite,
                     AnonSign(msg, <<gKeyPair.Public>>, SAdd(gKeyPair.Secret, i + 1)))

sign(p, i, gKeyPair, msg) ==
    PromiseSignature(gKeyPair.Suite,
                     AnonSign(msg, <<gKeyPair.Public>>, gKeyPair.Secret))

\* Mutant of Sign: the endorsement is signed over the blame tag.
Sign_BlameMsg(p, i, gKeyPair) == sign(p, i, gKeyPair, sigBlameMsg)

Sign(p, i, gKeyPair) == sign(p, i, gKeyPair, sigMsg)

\* Mutant of verifySignature: the ring is built from the next insurer's key.
verifySignature_NextRing(p, i, sig, msg) ==
    IF sig.signature = NilBytes THEN ErrNilSignature
    ELSE IF i < 0 \/ i >= p.n THEN ErrInvalidIndex
    ELSE IF AnonVerify(msg, <<p.insurers[((i + 1) % p.n) + 1]>>, sig.signature) THEN Nil
    ELSE ErrBadSignature

\* Mutant of verifySignature: the ring is always the first insurer's key.
verifySignature_FirstRing(p, i, sig, msg) ==
    IF sig.signature = NilBytes THEN ErrNilSignature
    ELSE IF i < 0 \/ i >= p.n THEN ErrInvalidIndex
    ELSE IF AnonVerify(msg, <<p.insurers[1]>>, sig.signature) THEN Nil
    ELSE ErrBadSignature

verifySignature(p, i, sig, msg) ==
    IF sig.signature = NilBytes THEN ErrNilSignature
    ELSE IF i < 0 \/ i >= p.n THEN ErrInvalidIndex
    ELSE IF AnonVerify(msg, <<p.insurers[i + 1]>>, sig.signature) THEN Nil
    ELSE ErrBadSignature

\* Mutant of VerifySignature: endorsements are verified over the blame tag.
VerifySignature_BlameTag(p, i, sig) == verifySignature(p, i, sig, sigBlameMsg)

VerifySignature(p, i, sig) == verifySignature(p, i, sig, sigMsg)

\* Mutant of RevealShare: the stored scalar is handed out still masked.
RevealShare_StillMasked(p, i, gKeyPair) == p.secrets[i + 1]

RevealShare(p, i, gKeyPair) ==
    diffieHellmanDecrypt(p.secrets[i + 1], Mul(p.pubKey, gKeyPair.Secret))

\* Mutant of VerifyRevealedShare: the share is not checked against pubPoly.
VerifyRevealedShare_IndexOnly(p, i, share) ==
    IF i > p.n \/ i < 0 THEN ErrInvalidIndex ELSE Nil

VerifyRevealedShare(p, i, share) ==
    IF i > p.n \/ i < 0 THEN ErrInvalidIndex
    ELSE IF ~PubPolyCheck(p.pubPoly, i, share) THEN ErrBadShare
    ELSE Nil

\* BlameProof.init
BlameProof(suite, key, dkp, sig) ==
    [suite |-> suite, diffieKey |-> key, diffieKeyProof |-> dkp, signature |-> sig]

\* Mutant of Blame: the insurer's public key is disclosed in place of the
\* Diffie-Hellman key.
Blame_PublicAsKey(p, i, gKeyPair) ==
    LET diffieKey == Mul(G, gKeyPair.Secret)
        insurerSig == sign(p, i, gKeyPair, sigBlameMsg)
        prf == HashProve(gKeyPair.Secret, diffieKey, p.pubKey)
    IN BlameProof(p.shareSuite, diffieKey, prf, insurerSig)

Blame(p, i, gKeyPair) ==
    LET diffieKey == Mul(p.pubKey, gKeyPair.Secret)
        insurerSig == sign(p, i, gKeyPair, sigBlameMsg)
        prf == HashProve(gKeyPair.Secret, diffieKey, p.pubKey)
    IN BlameProof(p.shareSuite, diffieKey, prf, insurerSig)

\* Mutant of VerifyBlame: the polynomial check is read the wrong way round.
VerifyBlame_Inverted(p, i, blSig) ==
    IF i < 0 \/ i >= p.n THEN ErrInvalidIndex
    ELSE LET sigErr == verifySignature(p, i, blSig.signature, sigBlameMsg) IN
         IF sigErr # Nil THEN sigErr
         ELSE IF ~HashVerify(blSig.diffieKey, p.pubKey, blSig.diffieKeyProof)
              THEN ErrBadProof
         ELSE LET share == diffieHellmanDecrypt(p.secrets[i + 1], blSig.diffieKey)
              IN IF ~PubPolyCheck(p.pubPoly, i, share) THEN ErrUnjustifiedBlame
                 ELSE Nil

\* Mutant of VerifyBlame: the blame signature is not verified.
VerifyBlame_NoSig(p, i, blSig) ==
    IF i < 0 \/ i >= p.n THEN ErrInvalidIndex
    ELSE IF ~HashVerify(blSig.diffieKey, p.pubKey, blSig.diffieKeyProof)
         THEN ErrBadProof
    ELSE LET share == diffieHellmanDecrypt(p.secrets[i + 1], blSig.diffieKey)
         IN IF PubPolyCheck(p.pubPoly, i, share) THEN ErrUnjustifiedBlame
            ELSE Nil

\* Mutant of VerifyBlame: the proof of knowledge is verified before the
\* blame signature.
VerifyBlame_ProofFirst(p, i, blSig) ==
    IF i < 0 \/ i >= p.n THEN ErrInvalidIndex
    ELSE IF ~HashVerify(blSig.diffieKey, p.pubKey, blSig.diffieKeyProof)
         THEN ErrBadProof
    ELSE LET sigErr == verifySignature(p, i, blSig.signature, sigBlameMsg) IN
         IF sigErr # Nil THEN sigErr
         ELSE LET share == diffieHellmanDecrypt(p.secrets[i + 1], blSig.diffieKey)
              IN IF PubPolyCheck(p.pubPoly, i, share) THEN ErrUnjustifiedBlame
                 ELSE Nil

VerifyBlame(p, i, blSig) ==
    IF i < 0 \/ i >= p.n THEN ErrInvalidIndex
    ELSE LET sigErr == verifySignature(p, i, blSig.signature, sigBlameMsg) IN
         IF sigErr # Nil THEN sigErr
         ELSE IF ~HashVerify(blSig.diffieKey, p.pubKey, blSig.diffieKeyProof)
              THEN ErrBadProof
         ELSE LET share == diffieHellmanDecrypt(p.secrets[i + 1], blSig.diffieKey)
              IN IF PubPolyCheck(p.pubPoly, i, share) THEN ErrUnjustifiedBlame
                 ELSE Nil

\* ========================================================= binary encoding
\* Byte strings are sequences of numbers in 0 .. 255. A byte slice held by a
\* struct is nil (NilBytes), empty but not nil (EmptyBytes), or the value its
\* bytes stand for; reflect.DeepEqual tells the three apart.
uint32Size == 4
PointLen == 2     \* suite.PointLen()
SecretLen == 1    \* suite.SecretLen()
EmptyBytes == [emptyBytes |-> TRUE]
ErrBufferTooSmall == "Buffer size too small"
ErrBadPoint == "invalid point encoding"
ErrEOF == "EOF"
ErrUnexpectedEOF == "unexpected EOF"

\* make([]byte, size)
MakeBytes(size) == [k \in 1 .. size |-> 0]

\* buf[low:high] of a buffer whose capacity is its length.
Slice(buf, low, high) == SubSeq(buf, low + 1, high)

\* copy(buf[off:], src): as many bytes as fit.
Copy(buf, off, src) ==
    [k \in 1 .. Len(buf) |->
       IF k > off /\ k <= off + Len(src) THEN src[k - off] ELSE buf[k]]

\* binary.LittleEndian.PutUint32 of uint32(v), and binary.LittleEndian.Uint32.
PutUint32(v) ==
    <<v % 256, (v \div 256) % 256, (v \div 65536) % 256, (v \div 16777216) % 256>>
Uint32(b) == b[1] + 256 * b[2] + 65536 * b[3] + 16777216 * b[4]

\* Point.MarshalBinary / UnmarshalBinary: PointLen bytes, little-endian.
PointMarshalBinary(P) == <<P % 256, P \div 256>>
PointUnmarshalBinary(b) ==
    LET v == b[1] + 256 * b[2] IN
    IF v \in Points THEN [err |-> Nil, val |-> v] ELSE [err |-> ErrBadPoint, val |-> 0]

\* Secret.MarshalBinary / UnmarshalBinary: SecretLen bytes, reduced on decoding.
SecretMarshalBinary(s) == <<s % 256>>
SecretUnmarshalBinary(b) == [err |-> Nil, val |-> b[1] % Q]

\* The bytes of a signature of anon.Sign and of a proof of HashProve, and
\* the values those bytes stand for.
MsgCode(msg) == IF msg = sigMsg THEN 1 ELSE IF msg = sigBlameMsg THEN 2 ELSE 3
CodeMsg(c) == IF c = 1 THEN sigMsg ELSE IF c = 2 THEN sigBlameMsg ELSE badMsg
SignatureBytes(sig) ==
    IF sig \in {NilBytes, EmptyBytes} THEN << >>
    ELSE IF DOMAIN sig = {"msg", "pub"} THEN <<MsgCode(sig.msg), sig.pub>>
    ELSE sig.raw
BytesSignature(b) ==
    IF b = << >> THEN EmptyBytes
    ELSE IF Len(b) = 2 /\ b[1] \in 1 .. 3 /\ b[2] \in Points
         THEN [msg |-> CodeMsg(b[1]), pub |-> b[2]]
    ELSE [raw |-> b]
GarbageBytes == <<9, 9, 9>>
ProofBytes(prf) ==
    IF prf \in {NilBytes, EmptyBytes} THEN << >>
    ELSE IF prf = GarbageProof THEN GarbageBytes
    ELSE IF DOMAIN prf = {"x", "P"} THEN <<prf.x, prf.P>>
    ELSE prf.raw
BytesProof(b) ==
    IF b = << >> THEN EmptyBytes
    ELSE IF b = GarbageBytes THEN GarbageProof
    ELSE IF Len(b) = 2 /\ b[1] \in Scalars /\ b[2] \in Points
         THEN [x |-> b[1], P |-> b[2]]
    ELSE [raw |-> b]

\* What a decoding call returns: an error and the receiver as it was filled.
Decoded(v) == [err |-> Nil, val |-> v]
Failed(e) == [err |-> e, val |-> NilPtr]

\* io.ReadFull(r, buf) with len(buf) = k on a reader holding stream.
ReadFull(stream, k) ==
    IF Len(stream) >= k THEN [n |-> k, err |-> Nil]
    ELSE IF Len(stream) = 0 THEN [n |-> 0, err |-> ErrEOF]
    ELSE [n |-> Len(stream), err |-> ErrUnexpectedEOF]

\* ------------------------------------------------- PromiseSignature codec
PromiseSignatureEqual(p, p2) == p.suite = p2.suite /\ p = p2

PromiseSignatureMarshalSize(p) == uint32Size + Len(SignatureBytes(p.signature))

PromiseSignatureMarshalBinary(p) ==
    LET sigBytes == SignatureBytes(p.signature)
        buf == MakeBytes(PromiseSignatureMarshalSize(p))
    IN Copy(Copy(buf, 0, PutUint32(Len(sigBytes))), uint32Size, sigBytes)

PromiseSignatureUnmarshalBinary(suite, buf) ==
    IF Len(buf) < uint32Size THEN Failed(ErrBufferTooSmall)
    ELSE LET sigLen == Uint32(buf) IN
         IF Len(buf) < uint32Size + sigLen THEN Failed(ErrBufferTooSmall)
         ELSE Decoded(PromiseSignature(suite,
                        BytesSignature(Slice(buf, uint32Size, uint32Size + sigLen))))

\* Mutant of PromiseSignature.UnmarshalFrom: the reader is drained to its end
\* before decoding.
PromiseSignatureUnmarshalFrom_Drain(suite, stream) ==
    LET first == ReadFull(stream, uint32Size) IN
    IF first.err # Nil THEN [n |-> first.n, err |-> first.err, val |-> NilPtr]
    ELSE LET res == PromiseSignatureUnmarshalBinary(suite, stream)
         IN [n |-> Len(stream), err |-> res.err, val |-> res.val]

PromiseSignatureUnmarshalFrom(suite, stream) ==
    LET first == ReadFull(stream, uint32Size) IN
    IF first.err # Nil THEN [n |-> first.n, err |-> first.err, val |-> NilPtr]
    ELSE LET sigLen == Uint32(stream)
             rest == ReadFull(Slice(stream, first.n, Len(stream)), sigLen)
         IN IF rest.err # Nil
            THEN [n |-> first.n + rest.n, err |-> rest.err, val |-> NilPtr]
            ELSE LET res == PromiseSignatureUnmarshalBinary(
                               suite, Slice(stream, 0, uint32Size + sigLen))
                 IN [n |-> first.n + rest.n, err |-> res.err, val |-> res.val]

\* ------------------------------------------------------- BlameProof codec
BlameProofEqual(bp, bp2) ==
    /\ bp.suite = bp2.suite
    /\ bp.diffieKey = bp2.diffieKey
    /\ bp.diffieKeyProof = bp2.diffieKeyProof
    /\ PromiseSignatureEqual(bp.signature, bp2.signature)

BlameProofMarshalSize(bp) ==
    2 * uint32Size + PointLen + Len(ProofBytes(bp.diffieKeyProof))
    + PromiseSignatureMarshalSize(bp.signature)

BlameProofMarshalBinary(bp) ==
    LET pointLen == PointLen
        proofBytes == ProofBytes(bp.diffieKeyProof)
        proofLen == Len(proofBytes)
        buf0 == MakeBytes(BlameProofMarshalSize(bp))
        buf1 == Copy(buf0, 0, PutUint32(proofLen))
        buf2 == Copy(buf1, uint32Size,
                     PutUint32(PromiseSignatureMarshalSize(bp.signature)))
        buf3 == Copy(buf2, 2 * uint32Size, PointMarshalBinary(bp.diffieKey))
        buf4 == Copy(buf3, 2 * uint32Size + pointLen, proofBytes)
    IN Copy(buf4, 2 * uint32Size + pointLen + proofLen,
            PromiseSignatureMarshalBinary(bp.signature))

BlameProofUnmarshalBinary(suite, buf) ==
    LET pointLen == PointLen IN
    IF Len(buf) < 2 * uint32Size + pointLen THEN Failed(ErrBufferTooSmall)
    ELSE LET proofLen == Uint32(buf)
             sigLen == Uint32(Slice(buf, uint32Size, Len(buf)))
             bufPos == 2 * uint32Size
             key == PointUnmarshalBinary(Slice(buf, bufPos, bufPos + pointLen))
         IN IF key.err # Nil THEN Failed(key.err)
            ELSE IF Len(buf) < 2 * uint32Size + pointLen + proofLen + sigLen
                 THEN Failed(ErrBufferTooSmall)
            ELSE LET proofPos == bufPos + pointLen
                     prf == BytesProof(Slice(buf, proofPos, proofPos + proofLen))
                     sigPos == proofPos + proofLen
                     sig == PromiseSignatureUnmarshalBinary(
                               suite, Slice(buf, sigPos, sigPos + sigLen))
                 IN IF sig.err # Nil THEN Failed(sig.err)
                    ELSE Decoded(BlameProof(suite, key.val, prf, sig.val))

BlameProofUnmarshalFrom(suite, stream) ==
    LET first == ReadFull(stream, 2 * uint32Size) IN
    IF first.err # Nil THEN [n |-> first.n, err |-> first.err, val |-> NilPtr]
    ELSE LET pointLen == PointLen
             proofLen == Uint32(stream)
             sigLen == Uint32(Slice(stream, uint32Size, Len(stream)))
             finalLen == 2 * uint32Size + pointLen + proofLen + sigLen
             rest == ReadFull(Slice(stream, first.n, Len(stream)), finalLen - first.n)
         IN IF rest.err # Nil
            THEN [n |-> first.n + rest.n, err |-> rest.err, val |-> NilPtr]
            ELSE LET res == BlameProofUnmarshalBinary(suite, Slice(stream, 0, finalLen))
                 IN [n |-> first.n + rest.n, err |-> res.err, val |-> res.val]

\* ---------------------------------------------------------- Promise codec
PromiseEqual(p, p2) ==
    IF p.n # p2.n THEN FALSE
    ELSE /\ \A i \in 1 .. p.n :
              p.secrets[i] = p2.secrets[i] /\ p.insurers[i] = p2.insurers[i]
         /\ p.shareSuite = p2.shareSuite /\ p.t = p2.t /\ p.r = p2.r
         /\ p.n = p2.n /\ p.pubKey = p2.pubKey /\ p.pubPoly = p2.pubPoly

\* PubPoly.MarshalSize of a polynomial of k commitments.
PubPolyMarshalSize(k) == k * PointLen

PromiseMarshalSize(p) ==
    3 * uint32Size + PointLen + PubPolyMarshalSize(Len(p.pubPoly))
    + p.n * PointLen + p.n * SecretLen

\* for i := range items { copy(buf[bufPos + i*width:], Marshal(items[i])) }
RECURSIVE CopyEach(_, _, _, _, _)
CopyEach(buf, bufPos, width, encoded, i) ==
    IF i >= Len(encoded) THEN buf
    ELSE CopyEach(Copy(buf, bufPos + i * width, encoded[i + 1]),
                  bufPos, width, encoded, i + 1)

PromiseMarshalBinary(p) ==
    LET pointLen == PointLen
        polyLen == PubPolyMarshalSize(Len(p.pubPoly))
        secretLen == SecretLen
        buf0 == MakeBytes(PromiseMarshalSize(p))
        buf1 == Copy(buf0, 0, PutUint32(p.n))
        buf2 == Copy(buf1, uint32Size, PutUint32(p.t))
        buf3 == Copy(buf2, 2 * uint32Size, PutUint32(p.r))
        buf4 == Copy(buf3, 3 * uint32Size, PointMarshalBinary(p.pubKey))
        buf5 == CopyEach(buf4, 3 * uint32Size + pointLen, pointLen,
                         [k \in 1 .. Len(p.pubPoly) |-> PointMarshalBinary(p.pubPoly[k])], 0)
        bufPos == 3 * uint32Size + pointLen + polyLen
        buf6 == CopyEach(buf5, bufPos, pointLen,
                         [k \in 1 .. Len(p.insurers) |-> PointMarshalBinary(p.insurers[k])], 0)
    IN CopyEach(buf6, bufPos + p.n * pointLen, secretLen,
                [k \in 1 .. Len(p.secrets) |-> SecretMarshalBinary(p.secrets[k])], 0)

\* The decoding loops of Promise.UnmarshalBinary: count items of width bytes
\* from bufPos on. Slicing beyond the buffer is a run-time panic; a decoding
\* error is returned.
RECURSIVE DecodeEach(_, _, _, _, _, _)
DecodeEach(buf, bufPos, width, count, i, acc) ==
    IF i >= count THEN Decoded(acc)
    ELSE LET start == bufPos + i * width
             end == start + width
         IN IF end > Len(buf) THEN Panic
            ELSE LET item == IF width = PointLen
                             THEN PointUnmarshalBinary(Slice(buf, start, end))
                             ELSE SecretUnmarshalBinary(Slice(buf, start, end))
                 IN IF item.err # Nil THEN Failed(item.err)
                    ELSE DecodeEach(buf, bufPos, width, count, i + 1,
                                    Append(acc, item.val))

PromiseUnmarshalBinary(suite, buf) ==
    LET pointLen == PointLen
        secretLen == SecretLen
    IN IF Len(buf) < 3 * uint32Size THEN Panic
       ELSE LET n == Uint32(buf)
                t == Uint32(Slice(buf, uint32Size, Len(buf)))
                r == Uint32(Slice(buf, 2 * uint32Size, Len(buf)))
                keyPos == 3 * uint32Size
                polyPos == keyPos + pointLen
                polyLen == PubPolyMarshalSize(t)
                insPos == polyPos + polyLen
                secPos == insPos + n * pointLen
                key == DecodeEach(buf, keyPos, pointLen, 1, 0, << >>)
                pubPoly == IF polyPos + polyLen > Len(buf) THEN Panic
                           ELSE DecodeEach(buf, polyPos, pointLen, t, 0, << >>)
                insurers == DecodeEach(buf, insPos, pointLen, n, 0, << >>)
                secrets == DecodeEach(buf, secPos, secretLen, n, 0, << >>)
            IN IF key = Panic \/ key.err # Nil THEN key
               ELSE IF pubPoly = Panic \/ pubPoly.err # Nil THEN pubPoly
               ELSE IF insurers = Panic \/ insurers.err # Nil THEN insurers
               ELSE IF secrets = Panic \/ secrets.err # Nil THEN secrets
               ELSE Decoded([shareSuite |-> suite, t |-> t, r |-> r, n |-> n,
                             pubKey |-> key.val[1], pubPoly |-> pubPoly.val,
                             insurers |-> insurers.val, secrets |-> secrets.val])

PromiseUnmarshalFrom(suite, stream) ==
    LET first == ReadFull(stream, 2 * uint32Size) IN
    IF first.err # Nil THEN [n |-> first.n, err |-> first.err, val |-> NilPtr]
    ELSE LET n == Uint32(stream)
             t == Uint32(Slice(stream, uint32Size, Len(stream)))
             finalLen == 3 * uint32Size + PointLen + PubPolyMarshalSize(t)
                         + n * PointLen + n * SecretLen
             rest == ReadFull(Slice(stream, first.n, Len(stream)), finalLen - first.n)
         IN IF rest.err # Nil
            THEN [n |-> first.n + rest.n, err |-> rest.err, val |-> NilPtr]
            ELSE LET res == PromiseUnmarshalBinary(suite, Slice(stream, 0, finalLen))
                 IN [n |-> first.n + rest.n, err |-> res.err, val |-> res.val]

\* =========================================================== PromiseState
\* Mutant of PromiseState.Init: the PriShares threshold is n instead of t.
PromiseStateInit_ThresholdN(p) ==
    [Promise |-> p,
     PriShares |-> PriSharesEmpty(p.shareSuite, p.n, p.n),
     signatures |-> [k \in 1 .. p.n |-> NilPtr],
     blames |-> [k \in 1 .. p.n |-> NilPtr]]

\* PromiseState.Init: an empty PriShares and one empty signature slot and
\* blame slot per insurer.
PromiseStateInit(p) ==
    [Promise |-> p,
     PriShares |-> PriSharesEmpty(p.shareSuite, p.t, p.n),
     signatures |-> [k \in 1 .. p.n |-> NilPtr],
     blames |-> [k \in 1 .. p.n |-> NilPtr]]

RECURSIVE CertifiedLoop(_, _, _)
\* The loop of PromiseCertified from index i on, validSigs counted so far.
CertifiedLoop(ps, i, validSigs) ==
    IF i >= ps.Promise.n
    THEN IF validSigs < ps.Promise.r THEN ErrNotEnoughSigs ELSE Nil
    ELSE LET sigOk == /\ ps.signatures[i + 1] # NilPtr
                      /\ VerifySignature(ps.Promise, i, ps.signatures[i + 1]) = Nil
             blameOk == /\ ps.blames[i + 1] # NilPtr
                        /\ VerifyBlame(ps.Promise, i, ps.blames[i + 1]) = Nil
         IN IF blameOk THEN ErrRepudiated
            ELSE CertifiedLoop(ps, i + 1, IF sigOk THEN validSigs + 1 ELSE validSigs)

\* The numbers of valid signatures and of valid blames among the slots.
ValidSigCount(ps) ==
    Cardinality({i \in 0 .. (ps.Promise.n - 1) :
        /\ ps.signatures[i + 1] # NilPtr
        /\ VerifySignature(ps.Promise, i, ps.signatures[i + 1]) = Nil})
ValidBlameCount(ps) ==
    Cardinality({i \in 0 .. (ps.Promise.n - 1) :
        /\ ps.blames[i + 1] # NilPtr
        /\ VerifyBlame(ps.Promise, i, ps.blames[i + 1]) = Nil})

\* Mutant of PromiseCertified: r valid signatures are not yet enough.
PromiseCertified_OffByOne(ps, promiserKey) ==
    LET err == VerifyPromise(ps.Promise, promiserKey) IN
    IF err # Nil THEN err
    ELSE IF ValidBlameCount(ps) > 0 THEN ErrRepudiated
    ELSE IF ValidSigCount(ps) <= ps.Promise.r THEN ErrNotEnoughSigs
    ELSE Nil

\* Mutant of PromiseCertified: the signatures are counted before any blame
\* is looked at.
PromiseCertified_SigsFirst(ps, promiserKey) ==
    LET err == VerifyPromise(ps.Promise, promiserKey) IN
    IF err # Nil THEN err
    ELSE IF ValidSigCount(ps) >= ps.Promise.r THEN Nil
    ELSE IF ValidBlameCount(ps) > 0 THEN ErrRepudiated
    ELSE ErrNotEnoughSigs

\* Mutant of PromiseCertified: a stored blame repudiates without being
\* verified.
PromiseCertified_AnyBlame(ps, promiserKey) ==
    LET err == VerifyPromise(ps.Promise, promiserKey) IN
    IF err # Nil THEN err
    ELSE IF \E k \in 1 .. ps.Promise.n : ps.blames[k] # NilPtr THEN ErrRepudiated
    ELSE IF ValidSigCount(ps) < ps.Promise.r THEN ErrNotEnoughSigs
    ELSE Nil

PromiseCertified(ps, promiserKey) ==
    LET err == VerifyPromise(ps.Promise, promiserKey) IN
    IF err # Nil THEN err ELSE CertifiedLoop(ps, 0, 0)

\* ============================================================ test harness
\* The key pairs of the harness: the secret being promised, the promiser's
\* long-term key, and one key pair per insurer.
secretKey == KeyPair(4 % Q)
promiserKey == KeyPair(3 % Q)
otherKey == KeyPair(2 % Q)

\* The keys PromiseCertified is asked with: the promiser's and another one.
AskedKeys == {promiserKey.Public, otherKey.Public}

\* The secret scalar of the k-th key pair of the harness (never zero).
InsurerSecret(k) == ((k - 1) % (Q - 1)) + 1

\* Insurer key lists of length n: all distinct, or the last insurer being
\* the first one again.
Rosters(n) ==
    { [k \in 1 .. n |-> InsurerSecret(k)],
      [k \in 1 .. n |-> IF k = n THEN InsurerSecret(1) ELSE InsurerSecret(k)] }

RECURSIVE SeqsOver(_, _)
\* All sequences of length len over the set S.
SeqsOver(S, len) ==
    IF len <= 0 THEN { << >> }
    ELSE { <<x>> \o s : x \in S, s \in SeqsOver(S, len - 1) }

\* The polynomials PriPoly.Pick can draw for threshold t and constant term
\* s0: t coefficients, the first one s0 (none at all for t <= 0).
PickedPolys(t, s0) ==
    IF t <= 0 THEN { << >> }
    ELSE { <<s0>> \o rest : rest \in SeqsOver(0 .. 1, t - 1) }

\* No arguments fixed ahead of the call.
NoArgs == [none |-> TRUE]

\* An empty stream: nothing written, nothing read, the reader's end not
\* reached early, no buffer decoded.
NoWire ==
    [buf |-> << >>, sent |-> << >>, rcvd |-> << >>, closed |-> FALSE, last |-> NoArgs]

VARIABLES
    pc,           \* "new", "panicked", "constructed", "tampered", "malformed",
                  \* "tracking"
    promise,      \* the Promise (shared by the harness and the PromiseState)
    insurerKeys,  \* harness: the secret of insurer k's key pair
    tampered,     \* harness: the indices whose secrets[i] the promiser replaced
    signatures,   \* PromiseState.signatures
    blames,       \* PromiseState.blames
    sigArgs,      \* harness: the last argument handed to AddSignature, per index
    blameArgs,    \* harness: the last argument handed to AddBlameProof, per index
    priShares,    \* PromiseState.PriShares: the revealed shares received so far
    args,         \* harness: the arguments t, r, insurers fixed before the call
                  \* of ConstructPromise, or NoArgs when they are chosen at the call
    wire          \* harness: the byte stream between a writer and a reader, what
                  \* was written to it and what the decoding calls returned

vars == <<pc, promise, insurerKeys, tampered, signatures, blames,
          sigArgs, blameArgs, priShares, args, wire>>
harness == <<sigArgs, blameArgs>>

\* The PromiseState as the code sees it.
State ==
    [Promise |-> promise, PriShares |-> priShares,
     signatures |-> signatures, blames |-> blames]

InsurerKey(i) == KeyPair(insurerKeys[i + 1])
InsurerList(keys) == [k \in 1 .. Len(keys) |-> Mul(G, keys[k])]
Indices == 0 .. (promise.n - 1)

\* The number of slots that hold a value.
Filled ==
    Cardinality({k \in 1 .. Len(signatures) : signatures[k] # NilPtr})
    + Cardinality({k \in 1 .. Len(blames) : blames[k] # NilPtr})

Init ==
    /\ pc = "new"
    /\ promise = EmptyPromise
    /\ insurerKeys = << >>
    /\ tampered = {}
    /\ signatures = << >>
    /\ blames = << >>
    /\ sigArgs = << >>
    /\ blameArgs = << >>
    /\ priShares = PriSharesEmpty(keySuite, 0, 0)
    /\ args = NoArgs
    /\ wire = NoWire

\* new(Promise).ConstructPromise(secretKey, promiserKey, t, r, insurerList)
DoConstructPromise(t, r, keys, coefs) ==
    /\ pc = "new"
    /\ insurerKeys' = keys
    /\ IF Len(keys) < t
       THEN /\ pc' = "panicked"
            /\ promise' = [EmptyPromise EXCEPT
                             !.t = t, !.r = r, !.n = Len(keys),
                             !.pubKey = promiserKey.Public,
                             !.insurers = InsurerList(keys),
                             !.secrets = [k \in 1 .. Len(keys) |-> 0]]
       ELSE /\ pc' = "constructed"
            /\ promise' = ConstructPromise(secretKey, promiserKey, t, r,
                                           InsurerList(keys), coefs)
    /\ UNCHANGED <<tampered, signatures, blames, harness, priShares, args, wire>>

\* A dishonest promiser: promise.secrets[i] = c written after construction.
TamperShare(i, c) ==
    /\ pc = "constructed"
    /\ i \in Indices
    /\ promise.secrets[i + 1] # c
    /\ promise' = [promise EXCEPT !.secrets[i + 1] = c]
    /\ tampered' = tampered \cup {i}
    /\ pc' = "tampered"
    /\ UNCHANGED <<insurerKeys, signatures, blames, harness, priShares, args, wire>>

\* new(PromiseState).Init(*promise)
DoPromiseStateInit ==
    /\ pc \in {"constructed", "tampered"}
    /\ signatures' = PromiseStateInit(promise).signatures
    /\ blames' = PromiseStateInit(promise).blames
    /\ sigArgs' = [k \in 1 .. promise.n |-> NilPtr]
    /\ blameArgs' = [k \in 1 .. promise.n |-> NilPtr]
    /\ priShares' = PromiseStateInit(promise).PriShares
    /\ pc' = "tracking"
    /\ UNCHANGED <<promise, insurerKeys, tampered, args, wire>>

\* Mutant of AddSignature: a slot that holds a value is not written again.
AddSignature_Once(i, sig) ==
    /\ pc = "tracking"
    /\ i \in Indices
    /\ signatures[i + 1] # NilPtr \/ Filled < MaxFilled
    /\ signatures' = IF signatures[i + 1] = NilPtr
                     THEN [signatures EXCEPT ![i + 1] = sig]
                     ELSE signatures
    /\ sigArgs' = [sigArgs EXCEPT ![i + 1] = sig]
    /\ UNCHANGED <<pc, promise, insurerKeys, tampered, blames, blameArgs, priShares, args, wire>>

\* Mutant of AddSignature: the blame slot of the same index is emptied.
AddSignature_ClearsBlame(i, sig) ==
    /\ pc = "tracking"
    /\ IF i < 0 \/ i >= Len(signatures)
       THEN /\ pc' = "panicked"
            /\ UNCHANGED <<signatures, sigArgs, blames>>
       ELSE /\ signatures[i + 1] # NilPtr \/ Filled < MaxFilled
            /\ signatures' = [signatures EXCEPT ![i + 1] = sig]
            /\ sigArgs' = [sigArgs EXCEPT ![i + 1] = sig]
            /\ blames' = [blames EXCEPT ![i + 1] = NilPtr]
            /\ pc' = pc
    /\ UNCHANGED <<promise, insurerKeys, tampered, blameArgs, priShares, args, wire>>

\* ps.signatures[i] = sig; an index outside the slice is a run-time panic.
AddSignature(i, sig) ==
    /\ pc = "tracking"
    /\ IF i < 0 \/ i >= Len(signatures)
       THEN /\ pc' = "panicked"
            /\ UNCHANGED <<signatures, sigArgs>>
       ELSE /\ signatures[i + 1] # NilPtr \/ Filled < MaxFilled
            /\ signatures' = [signatures EXCEPT ![i + 1] = sig]
            /\ sigArgs' = [sigArgs EXCEPT ![i + 1] = sig]
            /\ pc' = pc
    /\ UNCHANGED <<promise, insurerKeys, tampered, blames, blameArgs, priShares, args, wire>>

\* ps.blames[i] = bproof; an index outside the slice is a run-time panic.
AddBlameProof(i, bproof) ==
    /\ pc = "tracking"
    /\ IF i < 0 \/ i >= Len(blames)
       THEN /\ pc' = "panicked"
            /\ UNCHANGED <<blames, blameArgs>>
       ELSE /\ blames[i + 1] # NilPtr \/ Filled < MaxFilled
            /\ blames' = [blames EXCEPT ![i + 1] = bproof]
            /\ blameArgs' = [blameArgs EXCEPT ![i + 1] = bproof]
            /\ pc' = pc
    /\ UNCHANGED <<promise, insurerKeys, tampered, signatures, sigArgs, priShares, args, wire>>

\* p.RevealShare(i, gKeyPair): reads p.secrets[i] and returns the share; an
\* index outside the slice is a run-time panic.
DoRevealShare(i, gKeyPair) ==
    /\ pc = "tracking"
    /\ IF i < 0 \/ i >= Len(promise.secrets)
       THEN pc' = "panicked"
       ELSE /\ RevealShare(promise, i, gKeyPair) \in Scalars
            /\ pc' = pc
    /\ UNCHANGED <<promise, insurerKeys, tampered, signatures, blames, harness,
                   priShares, args, wire>>

\* ps.PriShares.SetShare(i, share): a client stores a revealed share.
SetShare(i, share) ==
    /\ pc = "tracking"
    /\ i \in Indices
    /\ priShares' = PriSharesSetShare(priShares, i, share)
    /\ UNCHANGED <<pc, promise, insurerKeys, tampered, signatures, blames, harness,
                   args, wire>>

\* ps.PriShares.Secret(): reconstruction; it panics without enough shares.
CallSecret ==
    /\ pc = "tracking"
    /\ pc' = IF PriSharesSecret(priShares) = Panic THEN "panicked" ELSE pc
    /\ UNCHANGED <<promise, insurerKeys, tampered, signatures, blames, harness,
                   priShares, args, wire>>

\* Mutant of PromiseCertified: a signature that fails verification is
\* removed from its slot.
DoPromiseCertified_Scrub(key) ==
    /\ pc = "tracking"
    /\ PromiseCertified(State, key) \in
         {Nil, ErrBadTRN, ErrBadPubKey, ErrBadLengths, ErrRepudiated, ErrNotEnoughSigs}
    /\ signatures' = [k \in 1 .. Len(signatures) |->
                        IF signatures[k] # NilPtr
                           /\ VerifySignature(promise, k - 1, signatures[k]) = Nil
                        THEN signatures[k] ELSE NilPtr]
    /\ UNCHANGED <<pc, promise, insurerKeys, tampered, blames, harness, priShares,
                   args, wire>>

\* PromiseCertified reads the state and returns; it writes nothing.
DoPromiseCertified(key) ==
    /\ pc = "tracking"
    /\ PromiseCertified(State, key) \in
         {Nil, ErrBadTRN, ErrBadPubKey, ErrBadLengths, ErrRepudiated, ErrNotEnoughSigs}
    /\ UNCHANGED vars

\* ------------------------------------------------------- inputs of the calls
\* A blame proof whose Diffie-Hellman key is x*pubKey for a scalar x of the
\* accuser's choosing, with an honest proof of knowledge of x and the
\* accuser's own blame signature.
BlameWithKey(p, i, gKeyPair, x) ==
    BlameProof(p.shareSuite, Mul(p.pubKey, x), HashProve(x, Mul(p.pubKey, x), p.pubKey),
               sign(p, i, gKeyPair, sigBlameMsg))

\* What the harness hands to AddSignature at index i.
SignatureInputs(i) ==
    { Sign(promise, i, InsurerKey(i)),
      sign(promise, i, InsurerKey(i), sigBlameMsg),
      NilPtr }

\* What the harness hands to AddBlameProof at index i.
BlameInputs(i) ==
    { Blame(promise, i, InsurerKey(i)),
      BlameWithKey(promise, i, InsurerKey(i), SAdd(insurerKeys[i + 1], 1)),
      NilPtr }

\* The scalars a dishonest promiser writes into secrets[i]: the zero scalar
\* and, at index 0, the encryption of the last insurer's secret under that
\* insurer's key.
TamperValues(i) ==
    LET badKey == InsurerKey(promise.n - 1) IN
    {0} \cup
    IF i = 0
    THEN {diffieHellmanEncrypt(badKey.Secret, Mul(promiserKey.Public, badKey.Secret))}
    ELSE {}

Next ==
    \/ \E n \in 1 .. MaxN, t \in 1 .. MaxT, r \in 0 .. (MaxN + 1) :
         \E keys \in Rosters(n), coefs \in PickedPolys(t, secretKey.Secret) :
            DoConstructPromise(t, r, keys, coefs)
    \/ \E i \in Indices : \E c \in TamperValues(i) : TamperShare(i, c)
    \/ DoPromiseStateInit
    \/ \E i \in Indices : \E sig \in SignatureInputs(i) : AddSignature(i, sig)
    \/ \E i \in Indices : \E bp \in BlameInputs(i) : AddBlameProof(i, bp)
    \/ \E key \in AskedKeys : DoPromiseCertified(key)

Spec == Init /\ [][Next]_vars

\* What the harness hands to SetShare at index i: the share as insurer i
\* reveals it, and as the next insurer of the list reveals it.
RevealInputs(i) ==
    { RevealShare(promise, i, InsurerKey(i)),
      RevealShare(promise, i, InsurerKey((i + 1) % promise.n)) }

\* VerifyPromise, VerifyShare and VerifyRevealedShare read the promise and
\* return; they write nothing.
DoVerifyPromise(key) ==
    /\ pc \in {"constructed", "tampered", "malformed"}
    /\ VerifyPromise(promise, key) \in {Nil, ErrBadTRN, ErrBadPubKey, ErrBadLengths}
    /\ UNCHANGED vars

DoVerifyShare(i, gKeyPair) ==
    /\ pc \in {"constructed", "tampered"}
    /\ VerifyShare(promise, i, gKeyPair) \in
         {Nil, ErrInvalidIndex, ErrWrongInsurer, ErrBadShare}
    /\ UNCHANGED vars

DoVerifyRevealedShare(i, share) ==
    /\ pc \in {"constructed", "tampered"}
    /\ VerifyRevealedShare(promise, i, share) \in {Nil, ErrInvalidIndex, ErrBadShare}
    /\ UNCHANGED vars

\* Sign, VerifySignature, Blame, VerifyBlame and Promise.MarshalBinary read
\* the promise and their arguments and return; they write nothing.
DoSign(i, gKeyPair) ==
    /\ pc \in {"constructed", "tampered"}
    /\ Sign(promise, i, gKeyPair).signature # NilBytes
    /\ UNCHANGED vars

DoVerifySignature(i, sig) ==
    /\ pc \in {"constructed", "tampered"}
    /\ VerifySignature(promise, i, sig) \in
         {Nil, ErrNilSignature, ErrInvalidIndex, ErrBadSignature}
    /\ UNCHANGED vars

DoBlame(i, gKeyPair) ==
    /\ pc \in {"constructed", "tampered"}
    /\ Blame(promise, i, gKeyPair).diffieKey \in Points
    /\ UNCHANGED vars

DoVerifyBlame(i, blSig) ==
    /\ pc \in {"constructed", "tampered"}
    /\ VerifyBlame(promise, i, blSig) \in
         {Nil, ErrNilSignature, ErrInvalidIndex, ErrBadSignature, ErrBadProof,
          ErrUnjustifiedBlame}
    /\ UNCHANGED vars

DoMarshalBinary ==
    /\ pc \in {"constructed", "tampered"}
    /\ Len(PromiseMarshalBinary(promise)) = PromiseMarshalSize(promise)
    /\ UNCHANGED vars

\* The calls of ConstructPromise with its arguments fixed beforehand, among
\* them thresholds below 1 and the empty insurer list.
ArgsOfConstruct ==
    { [t |-> t, r |-> r, keys |-> keys] :
        t \in -1 .. MaxT, r \in -1 .. (MaxN + 1),
        keys \in UNION { Rosters(n) : n \in 0 .. MaxN } }

InitConstruct ==
    /\ pc = "new"
    /\ promise = EmptyPromise
    /\ insurerKeys = << >>
    /\ tampered = {}
    /\ signatures = << >>
    /\ blames = << >>
    /\ sigArgs = << >>
    /\ blameArgs = << >>
    /\ priShares = PriSharesEmpty(keySuite, 0, 0)
    /\ args \in ArgsOfConstruct
    /\ wire = NoWire

\* A promise whose fields were overwritten after construction, one field at
\* a time: t = n + 1, t = r + 1, r = n + 1, another public key, an empty
\* insurer list, an empty secrets list.
MalformedPromises(p) ==
    { [p EXCEPT !.t = p.n + 1],
      [p EXCEPT !.t = p.r + 1],
      [p EXCEPT !.r = p.n + 1],
      [p EXCEPT !.pubKey = otherKey.Public],
      [p EXCEPT !.insurers = << >>],
      [p EXCEPT !.secrets = << >>] }

Malform(p) ==
    /\ pc = "constructed"
    /\ promise' = p
    /\ pc' = "malformed"
    /\ UNCHANGED <<insurerKeys, tampered, signatures, blames, harness, priShares, args, wire>>

\* The indices and key pairs handed to VerifyShare.
ShareIndices == -1 .. (promise.n + 1)

NextConstruct ==
    \/ \E coefs \in PickedPolys(args.t, secretKey.Secret) :
         DoConstructPromise(args.t, args.r, args.keys, coefs)
    \/ \E i \in Indices : \E c \in TamperValues(i) : TamperShare(i, c)
    \/ \E p \in MalformedPromises(promise) : Malform(p)
    \/ \E key \in AskedKeys : DoVerifyPromise(key)
    \/ \E i \in ShareIndices : \E k \in 0 .. (Q - 1) : DoVerifyShare(i, KeyPair(k))
    \/ \E i \in ShareIndices : \E s \in Scalars : DoVerifyRevealedShare(i, s)

SpecConstruct == InitConstruct /\ [][NextConstruct]_vars

\* Callers that hand any index in -1 .. n+1 to the indexed operations of the
\* PromiseState and to RevealShare.
NextMisuse ==
    \/ \E n \in 1 .. MaxN, t \in 1 .. MaxT, r \in 0 .. (MaxN + 1) :
         \E keys \in Rosters(n), coefs \in PickedPolys(t, secretKey.Secret) :
            DoConstructPromise(t, r, keys, coefs)
    \/ DoPromiseStateInit
    \/ \E i \in ShareIndices : AddSignature(i, Sign(promise, i, InsurerKey(0)))
    \/ \E i \in ShareIndices : AddBlameProof(i, Blame(promise, i, InsurerKey(0)))
    \/ \E i \in ShareIndices : DoRevealShare(i, InsurerKey(0))

SpecMisuse == Init /\ [][NextMisuse]_vars

\* A client collecting revealed shares and reconstructing the secret.
NextReveal ==
    \/ \E n \in 1 .. MaxN, t \in 1 .. MaxT, r \in 0 .. (MaxN + 1) :
         \E keys \in Rosters(n), coefs \in PickedPolys(t, secretKey.Secret) :
            DoConstructPromise(t, r, keys, coefs)
    \/ \E i \in Indices : \E c \in TamperValues(i) : TamperShare(i, c)
    \/ DoPromiseStateInit
    \/ \E i \in Indices : \E share \in RevealInputs(i) : SetShare(i, share)
    \/ CallSecret

SpecReveal == Init /\ [][NextReveal]_vars

\* ------------------------------------------------------ the codec harness
\* What is marshalled: the promise, the endorsement of each insurer, a
\* PromiseSignature as UnmarshalInit leaves it (signature nil), and the
\* blame proof of each insurer.
Artifacts ==
    {[kind |-> "Promise", val |-> promise]}
    \cup {[kind |-> "PromiseSignature", val |-> Sign(promise, i, InsurerKey(i))] :
            i \in Indices}
    \cup {[kind |-> "PromiseSignature", val |-> PromiseSignature(keySuite, NilBytes)]}
    \cup {[kind |-> "BlameProof", val |-> Blame(promise, i, InsurerKey(i))] :
            i \in Indices}

MarshalSize(x) ==
    IF x.kind = "Promise" THEN PromiseMarshalSize(x.val)
    ELSE IF x.kind = "PromiseSignature" THEN PromiseSignatureMarshalSize(x.val)
    ELSE BlameProofMarshalSize(x.val)

MarshalBinary(x) ==
    IF x.kind = "Promise" THEN PromiseMarshalBinary(x.val)
    ELSE IF x.kind = "PromiseSignature" THEN PromiseSignatureMarshalBinary(x.val)
    ELSE BlameProofMarshalBinary(x.val)

\* new(T).UnmarshalInit(keySuite).UnmarshalBinary(buf)
UnmarshalBinary(kind, buf) ==
    IF kind = "Promise" THEN PromiseUnmarshalBinary(keySuite, buf)
    ELSE IF kind = "PromiseSignature" THEN PromiseSignatureUnmarshalBinary(keySuite, buf)
    ELSE BlameProofUnmarshalBinary(keySuite, buf)

\* new(T).UnmarshalInit(keySuite).UnmarshalFrom(reader)
UnmarshalFrom(kind, stream) ==
    IF kind = "Promise" THEN PromiseUnmarshalFrom(keySuite, stream)
    ELSE IF kind = "PromiseSignature" THEN PromiseSignatureUnmarshalFrom(keySuite, stream)
    ELSE BlameProofUnmarshalFrom(keySuite, stream)

Equal(kind, a, b) ==
    IF kind = "Promise" THEN PromiseEqual(a, b)
    ELSE IF kind = "PromiseSignature" THEN PromiseSignatureEqual(a, b)
    ELSE BlameProofEqual(a, b)

\* x.MarshalTo(bufWriter): the bytes of MarshalBinary are written after what
\* the stream already holds. At most two artifacts are written.
DoMarshalTo(x) ==
    /\ pc \in {"constructed", "tampered"}
    /\ Len(wire.sent) < 2
    /\ ~wire.closed
    /\ wire.last = NoArgs
    /\ wire' = [wire EXCEPT !.buf = @ \o MarshalBinary(x), !.sent = Append(@, x)]
    /\ UNCHANGED <<pc, promise, insurerKeys, tampered, signatures, blames, harness,
                   priShares, args>>

\* decoded.UnmarshalFrom(bufReader) for the next artifact written, on a
\* reader that ends after k more bytes.
DoUnmarshalFrom(k) ==
    /\ pc \in {"constructed", "tampered"}
    /\ Len(wire.rcvd) < Len(wire.sent)
    /\ k <= Len(wire.buf)
    /\ k = Len(wire.buf) \/ (Len(wire.sent) = 1 /\ ~wire.closed)
    /\ LET kind == wire.sent[Len(wire.rcvd) + 1].kind
           stream == Slice(wire.buf, 0, k)
           res == UnmarshalFrom(kind, stream)
       IN wire' = [wire EXCEPT !.buf = Slice(stream, res.n, Len(stream)),
                               !.rcvd = Append(@, res),
                               !.closed = @ \/ k < Len(wire.buf)]
    /\ UNCHANGED <<pc, promise, insurerKeys, tampered, signatures, blames, harness,
                   priShares, args>>

\* decoded.UnmarshalBinary(buf) on the first k bytes of MarshalBinary(x); a
\* slice beyond the buffer is a run-time panic.
DoUnmarshalBinary(x, k) ==
    /\ pc \in {"constructed", "tampered"}
    /\ wire = NoWire
    /\ LET res == UnmarshalBinary(x.kind, Slice(MarshalBinary(x), 0, k)) IN
         /\ wire' = [wire EXCEPT !.last = [x |-> x, k |-> k, res |-> res]]
         /\ pc' = IF res = Panic THEN "panicked" ELSE pc
    /\ UNCHANGED <<promise, insurerKeys, tampered, signatures, blames, harness,
                   priShares, args>>

\* Writers and readers of marshalled promises, signatures and blame proofs.
NextCodec ==
    \/ \E n \in 1 .. MaxN, t \in 1 .. MaxT, r \in {0, MaxN + 1} :
         \E keys \in Rosters(n), coefs \in PickedPolys(t, secretKey.Secret) :
            DoConstructPromise(t, r, keys, coefs)
    \/ \E i \in Indices : \E c \in TamperValues(i) : TamperShare(i, c)
    \/ \E x \in Artifacts : DoMarshalTo(x)
    \/ \E k \in 0 .. Len(wire.buf) : DoUnmarshalFrom(k)
    \/ \E x \in Artifacts : \E k \in 0 .. MarshalSize(x) : DoUnmarshalBinary(x, k)

SpecCodec == Init /\ [][NextCodec]_vars

\* The blame proofs handed to VerifyBlame: insurer j's Diffie-Hellman key or
\* another key, with an honest proof of knowledge or an unreadable one, and
\* with j's blame signature, j's endorsement, a nil signature or the next
\* insurer's blame signature.
BlameVariants ==
    UNION { { BlameProof(keySuite, Mul(promise.pubKey, x), prf, sig) :
                x \in {insurerKeys[j + 1], SAdd(insurerKeys[j + 1], 1)},
                prf \in {HashProve(insurerKeys[j + 1],
                                   Mul(promise.pubKey, insurerKeys[j + 1]),
                                   promise.pubKey),
                         GarbageProof},
                sig \in {sign(promise, j, InsurerKey(j), sigBlameMsg),
                         Sign(promise, j, InsurerKey(j)),
                         PromiseSignature(keySuite, NilBytes),
                         sign(promise, j, InsurerKey((j + 1) % promise.n), sigBlameMsg)} } :
            j \in Indices }

\* The promise exists and no PromiseState tracks it.
Untracked == pc \in {"constructed", "tampered"}

\* The reading operations called on a promise before and after a
\* PromiseState tracks it.
QueryStep ==
    \/ Untracked /\ \E key \in AskedKeys : DoVerifyPromise(key)
    \/ Untracked /\ \E i \in Indices : \E k \in 1 .. (Q - 1) : DoVerifyShare(i, KeyPair(k))
    \/ Untracked /\ \E i \in Indices : \E k \in 1 .. (Q - 1) : DoSign(i, KeyPair(k))
    \/ Untracked /\ \E i \in Indices : \E sig \in SignatureInputs(i) \ {NilPtr} :
                       DoVerifySignature(i, sig)
    \/ Untracked /\ \E i \in Indices : \E s \in Scalars : DoVerifyRevealedShare(i, s)
    \/ Untracked /\ \E i \in Indices : \E k \in 1 .. (Q - 1) : DoBlame(i, KeyPair(k))
    \/ Untracked /\ \E i \in ShareIndices : \E bp \in BlameVariants : DoVerifyBlame(i, bp)
    \/ DoMarshalBinary
    \/ \E i \in Indices : DoRevealShare(i, InsurerKey(i))
    \/ \E key \in AskedKeys : DoPromiseCertified(key)

NextQuery ==
    \/ \E n \in 1 .. MaxN, t \in 1 .. MaxT, r \in {0, MaxN + 1} :
         \E keys \in Rosters(n), coefs \in PickedPolys(t, secretKey.Secret) :
            DoConstructPromise(t, r, keys, coefs)
    \/ \E i \in Indices : \E c \in TamperValues(i) : TamperShare(i, c)
    \/ DoPromiseStateInit
    \/ \E i \in Indices : \E sig \in SignatureInputs(i) : AddSignature(i, sig)
    \/ \E i \in Indices : \E bp \in BlameInputs(i) : AddBlameProof(i, bp)
    \/ QueryStep

SpecQuery == Init /\ [][NextQuery]_vars

\* ================================================================= claims
Tracking == pc = "tracking"
\* The promise exists and no PromiseState tracks it yet (tracking leaves the
\* promise as it is).
Constructed == pc \in {"constructed", "tampered"}

Honest == tampered = {}

\* What PromiseCertified returns now, asked with the promiser's public key.
CertNow == PromiseCertified(State, promiserKey.Public)

\* The slots that hold a signature / a blame proof that verifies.
ValidSigSlots ==
    {i \in Indices : signatures[i + 1] # NilPtr
                     /\ VerifySignature(promise, i, signatures[i + 1]) = Nil}
ValidBlameSlots ==
    {i \in Indices : blames[i + 1] # NilPtr
                     /\ VerifyBlame(promise, i, blames[i + 1]) = Nil}

\* C1: in every state reached from PromiseState.Init by Add calls,
\* PromiseCertified(key) returns nil exactly when VerifyPromise(key) succeeds,
\* no slot holds a blame that VerifyBlame accepts, and at least r slots hold
\* a signature that VerifySignature accepts.
C1_CertifiedIff ==
    Tracking =>
        \A key \in AskedKeys :
            (PromiseCertified(State, key) = Nil)
            <=> /\ VerifyPromise(promise, key) = Nil
                /\ ValidBlameSlots = {}
                /\ Cardinality(ValidSigSlots) >= promise.r

C1_Witness ==
    /\ Tracking
    /\ CertNow = Nil
    /\ Cardinality(ValidSigSlots) = promise.r
    /\ \E i \in Indices : blames[i + 1] # NilPtr

\* The state in which exactly the first k signature slots hold the insurers'
\* own endorsements and nothing else is stored.
EndorsedPrefix(k) ==
    /\ \A i \in Indices :
          signatures[i + 1] = IF i < k THEN Sign(promise, i, InsurerKey(i)) ELSE NilPtr
    /\ \A i \in Indices : blames[i + 1] = NilPtr

\* C2: on an honest promise, after the valid endorsements of indices
\* 0..k-1 have been added in order, PromiseCertified returns
\* InsufficientSignatures while k < r and nil from the r-th addition on.
C2_CertifiedAtRth ==
    (Tracking /\ Honest) =>
        \A k \in 0 .. promise.n :
            EndorsedPrefix(k) =>
                CertNow = IF k < promise.r THEN ErrNotEnoughSigs ELSE Nil

C2_Witness ==
    /\ Tracking
    /\ Honest
    /\ promise.r = 2
    /\ EndorsedPrefix(3)
    /\ CertNow = Nil

\* C3: with secrets[0] corrupted and insurer 0's blame stored in slot 0,
\* PromiseCertified returns PromiseRepudiated whatever else is stored.
C3_BlameOverrides ==
    (Tracking /\ 0 \in tampered /\ blames[1] = Blame(promise, 0, InsurerKey(0)))
        => CertNow = ErrRepudiated

C3_Witness ==
    /\ Tracking
    /\ 0 \in tampered
    /\ blames[1] = Blame(promise, 0, InsurerKey(0))
    /\ Cardinality(ValidSigSlots) >= promise.r
    /\ Cardinality(ValidSigSlots) = 2
    /\ CertNow = ErrRepudiated

\* C4: VerifyBlame(i, Blame(i, key_i)) returns nil when secrets[i] was
\* replaced by a scalar that does not decrypt to the share, and
\* UnjustifiedBlame when share i is as constructed.
C4_BlameSoundness ==
    Constructed =>
        \A i \in Indices :
            VerifyBlame(promise, i, Blame(promise, i, InsurerKey(i)))
                = IF i \in tampered THEN Nil ELSE ErrUnjustifiedBlame

C4_Witness ==
    /\ pc = "tampered"
    /\ promise.n = 3
    /\ 1 \in tampered
    /\ VerifyBlame(promise, 1, Blame(promise, 1, InsurerKey(1))) = Nil
    /\ VerifyBlame(promise, 0, Blame(promise, 0, InsurerKey(0))) = ErrUnjustifiedBlame

\* C5: VerifyBlame accepts a blame proof only if its diffieKey is the
\* Diffie-Hellman point insurer i shares with the promiser; a proof built by
\* insurer i around x'*pubKey for another scalar x' is never accepted.
C5_OnlyTrueDiffieKey ==
    Constructed =>
        \A i \in Indices : \A x \in Scalars :
            VerifyBlame(promise, i, BlameWithKey(promise, i, InsurerKey(i), x)) = Nil
                => Mul(promise.pubKey, x) = Mul(promise.pubKey, InsurerKey(i).Secret)

\* The promises a blame proof of this promise may be shown to: this one,
\* the ones that differ from it in one secret, and the ones constructed for
\* the same t and r by this or another promiser over either insurer list.
OtherPromises ==
    {promise}
    \cup {[promise EXCEPT !.secrets[j + 1] = c] : j \in Indices, c \in Scalars}
    \cup {ConstructPromise(secretKey, kp, promise.t, promise.r, InsurerList(keys), coefs) :
            kp \in {promiserKey, otherKey},
            keys \in Rosters(promise.n),
            coefs \in PickedPolys(promise.t, secretKey.Secret)}

\* C6 as stated: a proof made by Blame(i, key_i) on this promise is accepted
\* by no other promise and at no other index.
C6_BindsOnePair ==
    Constructed =>
        \A i \in Indices, j \in Indices : \A p2 \in OtherPromises :
            VerifyBlame(p2, j, Blame(promise, i, InsurerKey(i))) = Nil
                => (p2 = promise /\ j = i)

\* C6 amended: a proof made by Blame(i, key_i) is accepted at index j of a
\* promise only if that promise carries the same promiser key, lists
\* insurer i's public key at j, and holds at j a secret that, decrypted with
\* the shared Diffie-Hellman key, fails its polynomial check.
C6_BindsKeys ==
    Constructed =>
        \A i \in Indices, j \in Indices : \A p2 \in OtherPromises :
            VerifyBlame(p2, j, Blame(promise, i, InsurerKey(i))) = Nil
                => /\ p2.pubKey = promise.pubKey
                   /\ p2.insurers[j + 1] = InsurerKey(i).Public
                   /\ VerifyShare(p2, j, InsurerKey(i)) = ErrBadShare

C6_Witness ==
    /\ pc = "constructed"
    /\ \E i \in Indices, j \in Indices : \E p2 \in OtherPromises :
          /\ p2 # promise
          /\ j # i
          /\ VerifyBlame(p2, j, Blame(promise, i, InsurerKey(i))) = Nil

\* C7 as stated: a slot that holds a value is never written again.
C7_FilledOnce ==
    [][(Tracking /\ Tracking') =>
          /\ \A k \in 1 .. promise.n :
                signatures[k] # NilPtr => signatures'[k] = signatures[k]
          /\ \A k \in 1 .. promise.n :
                blames[k] # NilPtr => blames'[k] = blames[k]]_vars

\* C7 amended: every slot holds the argument of the most recent Add call
\* made on its index, whatever it held before (a later call on the same
\* index overwrites the slot), and is empty if no call was made on it.
C7_LastWriteWins ==
    Tracking => (signatures = sigArgs /\ blames = blameArgs)

C7_Witness ==
    /\ Tracking
    /\ Filled = MaxFilled
    /\ \E i \in Indices :
          /\ signatures[i + 1] = sigArgs[i + 1] /\ sigArgs[i + 1] # NilPtr
          /\ blames[i + 1] = blameArgs[i + 1] /\ blameArgs[i + 1] # NilPtr

\* C8 as stated: once PromiseCertified has returned PromiseRepudiated it
\* does so after every further Add call.
C8_RepudiatedForever ==
    [][(Tracking /\ CertNow = ErrRepudiated) => CertNow' = ErrRepudiated]_vars

\* C8 amended: once PromiseCertified has returned PromiseRepudiated it does
\* so after every further Add call that leaves at least one valid blame in
\* its slot (an AddBlameProof call that replaces the only valid blame ends
\* the repudiation). A step that leaves the PromiseState as it is leaves the
\* result as it is, so only the steps that change it are examined.
C8_RepudiatedWhileBlameStays ==
    [][(/\ Tracking
        /\ ~UNCHANGED <<promise, priShares, signatures, blames>>
        /\ CertNow = ErrRepudiated
        /\ \E i \in ValidBlameSlots : blames'[i + 1] = blames[i + 1])
          => CertNow' = ErrRepudiated]_vars

C8_Witness ==
    /\ Tracking
    /\ CertNow = ErrRepudiated
    /\ Cardinality(ValidSigSlots) >= promise.r
    /\ Filled = MaxFilled

\* The state with every slot that fails verification emptied.
Scrubbed ==
    [Promise |-> promise,
     signatures |-> [k \in 1 .. promise.n |->
                       IF (k - 1) \in ValidSigSlots THEN signatures[k] ELSE NilPtr],
     blames |-> [k \in 1 .. promise.n |->
                   IF (k - 1) \in ValidBlameSlots THEN blames[k] ELSE NilPtr]]

\* C9: a slot whose signature or blame proof fails verification counts
\* neither for nor against: PromiseCertified returns what it returns with
\* those slots empty.
C9_InvalidSlotsSkipped ==
    Tracking =>
        \A key \in AskedKeys :
            PromiseCertified(State, key) = PromiseCertified(Scrubbed, key)

C9_Witness ==
    /\ Tracking
    /\ Honest
    /\ promise.n = 2
    /\ \A i \in Indices : blames[i + 1] = Blame(promise, i, InsurerKey(i))
    /\ Scrubbed # State
    /\ CertNow = Nil

\* C10: on every ConstructPromise output, for every index i,
\* VerifySignature(i, Sign(i, key_i)) returns nil.
C10_SignVerifies ==
    Constructed =>
        \A i \in Indices :
            VerifySignature(promise, i, Sign(promise, i, InsurerKey(i))) = Nil

C10_Witness ==
    /\ pc = "constructed"
    /\ promise.n = 3
    /\ VerifySignature(promise, 2, Sign(promise, 2, InsurerKey(2))) = Nil

\* The key pairs a caller can hand to Sign, Blame, VerifyShare or RevealShare.
AnyKeyPairs == {KeyPair(x) : x \in Scalars}

\* C11 as stated: a signature produced for index i, with whatever key pair,
\* is rejected by VerifySignature at every other index j.
C11_IndexBound ==
    Constructed =>
        \A i \in Indices, j \in Indices, k \in AnyKeyPairs :
            i # j => VerifySignature(promise, j, Sign(promise, i, k)) # Nil

\* C11 amended: VerifySignature(j, Sign(i, k)) returns nil exactly when
\* insurers[j] is the public key of k, whatever the index i it was produced
\* for; so it is rejected at every index whose insurer key differs from the
\* signer's and accepted at every index that lists the signer's key.
C11_RingDecides ==
    Constructed =>
        \A i \in Indices, j \in Indices, k \in AnyKeyPairs :
            (VerifySignature(promise, j, Sign(promise, i, k)) = Nil)
                <=> (promise.insurers[j + 1] = k.Public)

C11_Witness ==
    /\ Constructed
    /\ \E i \in Indices, j \in Indices :
          /\ i # j
          /\ promise.insurers[i + 1] # promise.insurers[j + 1]
          /\ VerifySignature(promise, j, Sign(promise, i, InsurerKey(i))) = ErrBadSignature
    /\ \E i \in Indices, j \in Indices :
          /\ i # j
          /\ promise.insurers[i + 1] = promise.insurers[j + 1]
          /\ VerifySignature(promise, j, Sign(promise, i, InsurerKey(i))) = Nil

\* The blame proof of insurer i with its signature replaced by sig.
BlameSignedWith(i, sig) ==
    [Blame(promise, i, InsurerKey(i)) EXCEPT !.signature = sig]

\* The signature slots hold nothing but signatures over the blame tag.
OnlyBlameTagged ==
    \A i \in Indices :
        signatures[i + 1] \in {NilPtr, Blame(promise, i, InsurerKey(i)).signature}

\* C12: an endorsement signature is rejected inside a blame proof, the
\* signature of a blame proof is rejected as an endorsement and never counts
\* toward the r endorsements of PromiseCertified, and the right insurer's
\* signature over another message is rejected by both verifications.
C12_TagsSeparate ==
    /\ Constructed =>
          \A i \in Indices :
             /\ VerifyBlame(promise, i,
                    BlameSignedWith(i, Sign(promise, i, InsurerKey(i))))
                  = ErrBadSignature
             /\ VerifySignature(promise, i,
                    Blame(promise, i, InsurerKey(i)).signature) = ErrBadSignature
             /\ VerifySignature(promise, i,
                    sign(promise, i, InsurerKey(i), badMsg)) = ErrBadSignature
             /\ VerifyBlame(promise, i,
                    BlameSignedWith(i, sign(promise, i, InsurerKey(i), badMsg)))
                  = ErrBadSignature
    /\ (Tracking /\ OnlyBlameTagged) =>
          /\ ValidSigSlots = {}
          /\ CertNow # Nil

C12_Witness ==
    /\ Tracking
    /\ OnlyBlameTagged
    /\ \A i \in Indices : signatures[i + 1] # NilPtr
    /\ promise.n >= 2
    /\ \A i \in Indices : blames[i + 1] = NilPtr
    /\ CertNow = ErrNotEnoughSigs
    /\ \E i \in tampered :
          /\ VerifyBlame(promise, i, Blame(promise, i, InsurerKey(i))) = Nil
          /\ VerifyBlame(promise, i,
                 BlameSignedWith(i, Sign(promise, i, InsurerKey(i))))
               = ErrBadSignature

\* The promise is as ConstructPromise returned it.
Fresh == pc = "constructed"

\* C13: on every promise returned by ConstructPromise, VerifyShare(i, key_i)
\* returns nil at every index i in [0, n): the share decrypted with
\* pubKey * insurerSecret_i passes pubPoly.Check(i, .).
C13_ShareRoundTrip ==
    Fresh =>
        \A i \in Indices :
            /\ VerifyShare(promise, i, InsurerKey(i)) = Nil
            /\ PubPolyCheck(promise.pubPoly, i,
                   diffieHellmanDecrypt(promise.secrets[i + 1],
                       Mul(promise.pubKey, InsurerKey(i).Secret)))

C13_Witness ==
    /\ Fresh
    /\ promise.n = MaxN
    /\ promise.t = MaxT
    /\ promise.pubPoly[MaxT] # 0
    /\ \A i \in Indices : VerifyShare(promise, i, InsurerKey(i)) = Nil
    /\ RevealShare(promise, 0, InsurerKey(0)) # RevealShare(promise, 1, InsurerKey(1))

\* The private polynomial ConstructPromise drew for the promise (the one
\* whose commitment is promise.pubPoly), and its share at index i.
PriPolyOf ==
    CHOOSE coefs \in PickedPolys(promise.t, secretKey.Secret) :
        PubPolyCommit(coefs) = promise.pubPoly
ShareAt(i) == PriShare(PriPolyOf, i)

\* C14: on an honestly constructed promise, at every index i in [0, n),
\* VerifyRevealedShare accepts RevealShare(i, key_i) and rejects every scalar
\* that is not the polynomial's share at index i.
C14_RevealCorrect ==
    Fresh =>
        \A i \in Indices :
            /\ RevealShare(promise, i, InsurerKey(i)) = ShareAt(i)
            /\ VerifyRevealedShare(promise, i,
                   RevealShare(promise, i, InsurerKey(i))) = Nil
            /\ \A s \in Scalars \ {ShareAt(i)} :
                   VerifyRevealedShare(promise, i, s) = ErrBadShare

C14_Witness ==
    /\ Fresh
    /\ promise.n = MaxN
    /\ promise.t = MaxT
    /\ PriPolyOf[MaxT] # 0
    /\ \A i \in Indices :
          /\ promise.secrets[i + 1] # ShareAt(i)
          /\ VerifyRevealedShare(promise, i,
                 RevealShare(promise, i, InsurerKey(i))) = Nil
          /\ VerifyRevealedShare(promise, i, promise.secrets[i + 1]) = ErrBadShare

\* The indices whose revealed share the client has stored.
SharesSet == {i \in Indices : priShares.s[i + 1] # NilPtr}

\* Every stored share is the one its own insurer reveals.
RevealedByOwners ==
    \A i \in SharesSet :
        priShares.s[i + 1] = SecretRef(RevealShare(promise, i, InsurerKey(i)))

\* C15: on a ConstructPromise output with threshold t, once the shares
\* RevealShare(i, key_i) of t (or more) distinct indices are stored in
\* PromiseState.PriShares, reconstruction yields the original secret scalar.
C15_ReconstructsSecret ==
    (Tracking /\ Honest /\ RevealedByOwners /\ Cardinality(SharesSet) >= promise.t)
        => PriSharesSecret(priShares) = SecretRef(secretKey.Secret)

C15_Witness ==
    /\ Tracking
    /\ Honest
    /\ promise.t = MaxT
    /\ promise.n = MaxN
    /\ PriPolyOf[MaxT] # 0
    /\ RevealedByOwners
    /\ SharesSet = (MaxN - MaxT) .. (MaxN - 1)
    /\ \E i \in SharesSet : priShares.s[i + 1] # SecretRef(secretKey.Secret)
    /\ PriSharesSecret(priShares) = SecretRef(secretKey.Secret)

Called == args # NoArgs /\ pc \in {"panicked", "constructed", "tampered"}
Returned == args # NoArgs /\ pc \in {"constructed", "tampered"}
Max(a, b) == IF a >= b THEN a ELSE b
Min(a, b) == IF a <= b THEN a ELSE b

Exists == pc \in {"constructed", "tampered", "malformed"}

\* The promise with every stored value replaced (lengths kept).
Blanked(p) ==
    [p EXCEPT !.secrets = [k \in 1 .. Len(p.secrets) |-> 0],
              !.insurers = [k \in 1 .. Len(p.insurers) |-> 0],
              !.pubPoly = << >>]

\* C19: VerifyPromise(key) returns nil exactly when t <= n, t <= r, r <= n,
\* pubKey = key and len(insurers) = len(secrets) = n; the result does not
\* depend on what secrets, insurers and pubPoly hold; and it is nil on every
\* ConstructPromise output asked with the promiser's public key.
C19_StructuralOnly ==
    /\ Exists =>
          \A key \in AskedKeys :
             /\ (VerifyPromise(promise, key) = Nil)
                  <=> /\ promise.t <= promise.n
                      /\ promise.t <= promise.r
                      /\ promise.r <= promise.n
                      /\ promise.pubKey = key
                      /\ Len(promise.insurers) = promise.n
                      /\ Len(promise.secrets) = promise.n
             /\ VerifyPromise(Blanked(promise), key) = VerifyPromise(promise, key)
    /\ pc \in {"constructed", "tampered"} =>
          VerifyPromise(promise, promiserKey.Public) = Nil

C19_Witness ==
    /\ pc = "malformed"
    /\ promise.n = MaxN
    /\ Len(promise.insurers) = promise.n
    /\ Len(promise.secrets) # promise.n
    /\ promise.t <= promise.r /\ promise.r <= promise.n
    /\ VerifyPromise(promise, promiserKey.Public) = ErrBadLengths
    /\ VerifyPromise(promise, otherKey.Public) = ErrBadPubKey

\* C20: VerifyShare(i, kp) returns the index error whenever i < 0 or i >= n
\* and the wrong-insurer error whenever insurers[i] is not kp's public key,
\* whether the share stored at i is valid or not; the index is tested before
\* insurers[i] and secrets[i] are read and the key before anything is
\* decrypted.
C20_IndexThenKey ==
    Constructed =>
        \A i \in ShareIndices, k \in AnyKeyPairs :
            /\ (i < 0 \/ i >= promise.n) =>
                  VerifyShare(promise, i, k) = ErrInvalidIndex
            /\ (i \in Indices /\ promise.insurers[i + 1] # k.Public) =>
                  VerifyShare(promise, i, k) = ErrWrongInsurer
            /\ (i \in Indices /\ promise.insurers[i + 1] = k.Public) =>
                  VerifyShare(promise, i, k) \in {Nil, ErrBadShare}

C20_Witness ==
    /\ pc = "tampered"
    /\ VerifyShare(promise, -1, InsurerKey(0)) = ErrInvalidIndex
    /\ VerifyShare(promise, promise.n, InsurerKey(0)) = ErrInvalidIndex
    /\ \E i \in tampered, j \in Indices \ tampered :
          /\ InsurerKey(i) # InsurerKey(j)
          /\ VerifyShare(promise, i, InsurerKey(i)) = ErrBadShare
          /\ VerifyShare(promise, i, InsurerKey(j)) = ErrWrongInsurer
          /\ VerifyShare(promise, j, InsurerKey(j)) = Nil
          /\ VerifyShare(promise, j, InsurerKey(i)) = ErrWrongInsurer

\* C21 as stated: VerifySignature, VerifyBlame and VerifyRevealedShare return
\* the invalid-index error at every index outside [0, n), i = n included,
\* whatever signature, proof or share they are given.
C21_IndexErrors ==
    Constructed =>
        \A i \in ShareIndices \ Indices :
            /\ \A k \in AnyKeyPairs :
                  /\ VerifySignature(promise, i, Sign(promise, i, k)) = ErrInvalidIndex
                  /\ VerifyBlame(promise, i, Blame(promise, i, k)) = ErrInvalidIndex
            /\ \A s \in Scalars :
                  VerifyRevealedShare(promise, i, s) = ErrInvalidIndex

\* C22 as stated: ConstructPromise with n < t is the only call that aborts;
\* RevealShare, AddSignature and AddBlameProof with an index outside [0, n)
\* return and change nothing.
C22_OnlyMisuseFatal ==
    [][pc' = "panicked" => pc = "new"]_vars

\* ---------------------------------------------------------------- C23
\* C23: for every Promise, PromiseSignature and BlameProof x, a
\* PromiseSignature whose signature is nil included, unmarshalling
\* MarshalBinary(x) into an instance initialised with the same suite returns
\* no error and yields a value that is Equal to x, and every VerifySignature
\* or VerifyBlame call that returned nil on x returns nil on the decoded copy.
RoundTrip(x) == UnmarshalBinary(x.kind, MarshalBinary(x))

C23_RoundTrip ==
    Constructed =>
        \A x \in Artifacts :
            /\ RoundTrip(x).err = Nil
            /\ Equal(x.kind, x.val, RoundTrip(x).val)
            /\ \A i \in Indices :
                 /\ x.kind = "PromiseSignature" /\ VerifySignature(promise, i, x.val) = Nil
                      => VerifySignature(promise, i, RoundTrip(x).val) = Nil
                 /\ x.kind = "BlameProof" /\ VerifyBlame(promise, i, x.val) = Nil
                      => VerifyBlame(promise, i, RoundTrip(x).val) = Nil

\* The same with the nil signature left out.
RoundTripButNil ==
    Constructed =>
        \A x \in Artifacts \ {[kind |-> "PromiseSignature",
                               val |-> PromiseSignature(keySuite, NilBytes)]} :
            /\ RoundTrip(x).err = Nil
            /\ Equal(x.kind, x.val, RoundTrip(x).val)
            /\ \A i \in Indices :
                 /\ x.kind = "PromiseSignature" /\ VerifySignature(promise, i, x.val) = Nil
                      => VerifySignature(promise, i, RoundTrip(x).val) = Nil
                 /\ x.kind = "BlameProof" /\ VerifyBlame(promise, i, x.val) = Nil
                      => VerifyBlame(promise, i, RoundTrip(x).val) = Nil

\* ---------------------------------------------------------------- C24
\* The bytes of the artifacts written and not yet read, in the order written.
RECURSIVE Unread(_)
Unread(j) ==
    IF j > Len(wire.sent) THEN << >>
    ELSE MarshalBinary(wire.sent[j]) \o Unread(j + 1)

\* C24: MarshalBinary returns exactly MarshalSize() bytes and MarshalTo writes
\* exactly that many; UnmarshalFrom on a stream that starts with those bytes
\* reports and consumes exactly MarshalSize() bytes and leaves all following
\* bytes unread, so artifacts written back to back are decoded by successive
\* UnmarshalFrom calls as UnmarshalBinary decodes each of them alone.
C24_ExactBytes ==
    /\ Constructed =>
         \A x \in Artifacts : Len(MarshalBinary(x)) = MarshalSize(x)
    /\ ~wire.closed =>
         /\ wire.buf = Unread(Len(wire.rcvd) + 1)
         /\ \A j \in 1 .. Len(wire.rcvd) :
              /\ wire.rcvd[j].err = Nil
              /\ wire.rcvd[j].n = MarshalSize(wire.sent[j])
              /\ wire.rcvd[j].val = RoundTrip(wire.sent[j]).val
              /\ MarshalSize([kind |-> wire.sent[j].kind, val |-> wire.rcvd[j].val])
                   = MarshalSize(wire.sent[j])

\* Two artifacts of different types were written back to back and both were
\* read; each of the three types was the first of such a pair.
C24_Witness ==
    /\ ~wire.closed
    /\ Len(wire.sent) = 2
    /\ Len(wire.rcvd) = 2
    /\ wire.sent[1].kind = "PromiseSignature"
    /\ wire.sent[2].kind = "Promise"
    /\ wire.sent[1].val.signature # NilBytes
    /\ wire.rcvd[2].err = Nil
    /\ wire.buf = << >>

\* ---------------------------------------------------------------- C25
\* C25: UnmarshalBinary of a PromiseSignature, a BlameProof or a Promise on
\* a buffer shorter than the length its own prefixes imply returns the
\* buffer-too-small error and never aborts, and UnmarshalFrom returns an
\* error whenever the reader ends before the declared length has been read.
C25_TruncatedIsError ==
    /\ wire.last # NoArgs /\ wire.last.k < MarshalSize(wire.last.x)
         => wire.last.res = Failed(ErrBufferTooSmall)
    /\ wire.closed =>
         \A j \in 1 .. Len(wire.rcvd) :
            wire.rcvd[j].err \in {ErrEOF, ErrUnexpectedEOF}

\* The same for the two types whose UnmarshalBinary tests the buffer length.
TruncatedIsErrorButPromise ==
    /\ wire.last # NoArgs /\ wire.last.k < MarshalSize(wire.last.x)
       /\ wire.last.x.kind # "Promise"
         => wire.last.res = Failed(ErrBufferTooSmall)
    /\ wire.closed =>
         \A j \in 1 .. Len(wire.rcvd) :
            wire.rcvd[j].err \in {ErrEOF, ErrUnexpectedEOF}

\* ---------------------------------------------------------------- C26
\* C26: VerifyPromise, VerifyShare, Sign, VerifySignature, RevealShare,
\* VerifyRevealedShare, Blame, VerifyBlame and MarshalBinary leave every
\* field of the Promise as it was and keep nothing of the key pair handed
\* in, and PromiseCertified leaves the Promise and every signature and blame
\* slot of the PromiseState as it was, whatever it returns: no step that
\* changes one of them is a step of these operations.
C26_QueriesReadOnly ==
    [][~UNCHANGED <<promise, signatures, blames, priShares, insurerKeys>>
          => ~QueryStep]_vars

\* A PromiseState with a valid and an invalid signature and a valid blame
\* proof in its slots, on which PromiseCertified returns an error for both
\* keys asked and the slots are still filled.
C26_Witness ==
    /\ Tracking
    /\ \E i \in Indices, j \in Indices :
         /\ signatures[i + 1] # NilPtr /\ VerifySignature(promise, i, signatures[i + 1]) = Nil
         /\ signatures[j + 1] # NilPtr /\ VerifySignature(promise, j, signatures[j + 1]) # Nil
    /\ ValidBlameSlots # {}
    /\ \A key \in AskedKeys : PromiseCertified(State, key) # Nil

\* ---------------------------------------------------------------- C27
\* The four checks of VerifyBlame(i, proof), each taken on its own.
BlameIndexOk(i) == 0 <= i /\ i < promise.n
BlameSigOk(i, bp) ==
    /\ bp.signature.signature # NilBytes
    /\ AnonVerify(sigBlameMsg, <<promise.insurers[i + 1]>>, bp.signature.signature)
BlameProofOk(bp) == HashVerify(bp.diffieKey, promise.pubKey, bp.diffieKeyProof)
BlameShareOk(i, bp) ==
    PubPolyCheck(promise.pubPoly, i,
                 diffieHellmanDecrypt(promise.secrets[i + 1], bp.diffieKey))

\* C27: VerifyBlame(i, proof) checks the index bounds, the blame signature
\* over the ring {insurers[i]}, the proof of knowledge and the polynomial, in
\* that order, and returns the error of the first check that fails: the
\* unjustified-blame error only when index, signature and proof pass and the
\* decrypted share satisfies the polynomial, and nil exactly when index,
\* signature and proof pass and the decrypted share fails the polynomial.
C27_CheckOrder ==
    Constructed =>
        \A i \in ShareIndices : \A bp \in BlameVariants :
            LET res == VerifyBlame(promise, i, bp) IN
            /\ ~BlameIndexOk(i) => res = ErrInvalidIndex
            /\ BlameIndexOk(i) /\ ~BlameSigOk(i, bp)
                 => res \in {ErrNilSignature, ErrBadSignature}
            /\ BlameIndexOk(i) /\ BlameSigOk(i, bp) /\ ~BlameProofOk(bp)
                 => res = ErrBadProof
            /\ res = ErrUnjustifiedBlame
                 <=> /\ BlameIndexOk(i) /\ BlameSigOk(i, bp) /\ BlameProofOk(bp)
                     /\ BlameShareOk(i, bp)
            /\ res = Nil
                 <=> /\ BlameIndexOk(i) /\ BlameSigOk(i, bp) /\ BlameProofOk(bp)
                     /\ ~BlameShareOk(i, bp)

\* On one promise VerifyBlame returns nil, the unjustified-blame error and
\* the proof error, and is handed a proof whose signature and proof of
\* knowledge both fail.
C27_Witness ==
    /\ Constructed
    /\ \E i \in Indices : \E bp \in BlameVariants : VerifyBlame(promise, i, bp) = Nil
    /\ \E i \in Indices : \E bp \in BlameVariants :
         VerifyBlame(promise, i, bp) = ErrUnjustifiedBlame
    /\ \E i \in Indices : \E bp \in BlameVariants : VerifyBlame(promise, i, bp) = ErrBadProof
    /\ \E i \in Indices : \E bp \in BlameVariants :
         /\ ~BlameSigOk(i, bp) /\ ~BlameProofOk(bp)
         /\ VerifyBlame(promise, i, bp) = ErrBadSignature

\* ---------------------------------------------------------------- C28
\* The PromiseState whose slots hold, index by index, the argument of the
\* last Add call made for that index.
LastHanded ==
    [Promise |-> promise, PriShares |-> priShares,
     signatures |-> sigArgs, blames |-> blameArgs]

\* C28: AddSignature(i, sig) changes signature slot i only and
\* AddBlameProof(i, proof) changes blame slot i only: the other slots, the
\* other array, PriShares and the Promise stay as they were and both arrays
\* keep length n. Hence the state after any sequence of Add calls, and what
\* PromiseCertified returns on it, is given by the last argument handed in
\* per slot, whatever the order of the calls: PromiseCertified is a function
\* of the state and the key, so equal states give equal results. (The argument of a call at
\* index i is the value the step records in sigArgs[i + 1] or
\* blameArgs[i + 1].)
C28_SlotsIndependent ==
    /\ [][\A i \in Indices :
            /\ AddSignature(i, sigArgs'[i + 1]) =>
                  /\ signatures'[i + 1] = sigArgs'[i + 1]
                  /\ \A k \in 1 .. promise.n : k # i + 1 => signatures'[k] = signatures[k]
                  /\ blames' = blames
                  /\ Len(signatures') = promise.n /\ Len(blames') = promise.n
                  /\ priShares' = priShares /\ promise' = promise
            /\ AddBlameProof(i, blameArgs'[i + 1]) =>
                  /\ blames'[i + 1] = blameArgs'[i + 1]
                  /\ \A k \in 1 .. promise.n : k # i + 1 => blames'[k] = blames[k]
                  /\ signatures' = signatures
                  /\ Len(signatures') = promise.n /\ Len(blames') = promise.n
                  /\ priShares' = priShares /\ promise' = promise]_vars
    /\ [](Tracking => State = LastHanded)

\* Three slots were filled, among them a signature slot and the blame and
\* signature slots of a higher index.
C28_Witness ==
    /\ Tracking
    /\ Filled = MaxFilled
    /\ \E i \in Indices, j \in Indices :
         /\ i < j
         /\ signatures[i + 1] # NilPtr
         /\ blames[j + 1] # NilPtr
         /\ signatures[j + 1] # NilPtr
    /\ ValidSigSlots # {}

\* ---------------------------------------------------------------- C29
\* Promises of other secrets, promisers, thresholds, insurer lists and
\* polynomials.
ForeignPromises ==
    UNION { UNION { UNION { { ConstructPromise(sk, kp, t, r, InsurerList(keys), coefs) :
                                kp \in {promiserKey, otherKey},
                                r \in {0, MaxN + 1},
                                keys \in Rosters(n),
                                coefs \in PickedPolys(t, sk.Secret) } :
                            sk \in {secretKey, otherKey} } :
                    t \in 1 .. Min(n, MaxT) } :
            n \in 1 .. MaxN }

\* C29: whether an endorsement verifies depends on insurers[i], the
\* endorsement tag and the signature alone: a signature returned by
\* P.Sign(i, key) on any promise P verifies at every index j of this promise
\* with insurers[j] = key.Public, and PromiseCertified on a PromiseState of
\* this promise counts it toward the r endorsements.
C29_EndorsementsTransfer ==
    Constructed =>
        \A P \in ForeignPromises :
            /\ \A i \in 0 .. (P.n - 1) : \A key \in AnyKeyPairs : \A j \in Indices :
                 promise.insurers[j + 1] = key.Public =>
                    LET sig == Sign(P, i, key) IN
                    /\ VerifySignature(promise, j, sig) = Nil
                    /\ ValidSigCount([PromiseStateInit(promise) EXCEPT
                                        !.signatures[j + 1] = sig]) = 1
            /\ Honest =>
                 PromiseCertified(
                     [PromiseStateInit(promise) EXCEPT
                        !.signatures = [k \in 1 .. promise.n |->
                                          Sign(P, P.n - 1, InsurerKey(k - 1))]],
                     promise.pubKey) = Nil

\* A promise that needs two endorsements, and a promise of another secret,
\* promiser, threshold, length and polynomial whose signatures it accepts.
C29_Witness ==
    /\ Constructed
    /\ promise.r >= 2
    /\ \E P \in ForeignPromises :
         /\ P.pubKey # promise.pubKey
         /\ P.t # promise.t
         /\ P.n # promise.n
         /\ P.pubPoly # promise.pubPoly
         /\ P.insurers # promise.insurers
         /\ VerifySignature(promise, 1, Sign(P, 0, InsurerKey(1))) = Nil

\* ---------------------------------------------------------------- C30
\* C30: for every scalar s and point D, diffieHellmanDecrypt of
\* diffieHellmanEncrypt(s, D) with D is s; insurerPublic*promiserSecret and
\* promiserPublic*insurerSecret are the same point, so that a scalar
\* encrypted with the promiser-side point is recovered with the insurer-side
\* point; and decrypting with a point of a different mask does not return s.
C30_MaskRoundTrip ==
    /\ \A s \in Scalars, D \in Points :
         /\ diffieHellmanDecrypt(diffieHellmanEncrypt(s, D), D) = s
         /\ \A D2 \in Points :
              CipherPick(D2) # CipherPick(D)
                 => diffieHellmanDecrypt(diffieHellmanEncrypt(s, D), D2) # s
    /\ \A a \in Scalars, b \in Scalars :
         /\ Mul(KeyPair(a).Public, b) = Mul(KeyPair(b).Public, a)
         /\ \A s \in Scalars :
              diffieHellmanDecrypt(
                  diffieHellmanEncrypt(s, Mul(KeyPair(a).Public, b)),
                  Mul(KeyPair(b).Public, a)) = s
    /\ Tracking /\ Honest =>
         \A i \in Indices :
            /\ diffieHellmanDecrypt(promise.secrets[i + 1],
                                    Mul(promise.pubKey, insurerKeys[i + 1])) = ShareAt(i)
            /\ \A x \in Scalars :
                 CipherPick(Mul(promise.pubKey, x))
                   # CipherPick(Mul(promise.insurers[i + 1], promiserKey.Secret))
                 => diffieHellmanDecrypt(promise.secrets[i + 1],
                                         Mul(promise.pubKey, x)) # ShareAt(i)

\* A client holds a share that its owner unmasked and a scalar that another
\* insurer, with another Diffie-Hellman point, got from the same secrets[i].
C30_Witness ==
    /\ Tracking /\ Honest
    /\ \E i \in Indices, j \in Indices :
         /\ i # j
         /\ priShares.s[i + 1] = SecretRef(ShareAt(i))
         /\ priShares.s[j + 1] # NilPtr
         /\ priShares.s[j + 1] # SecretRef(ShareAt(j))

====
